---- MODULE Spec2Model ----
(***************************************************************************)
(* Model of the validation-tool pipeline                                   *)
(*   detectShape -> normalizeErrors -> schema.validate -> classifyResult   *)
(* and of its entry point parseApiResponse.                                *)
(*                                                                         *)
(* Decoded bodies are JavaScript values.  A value is a record tagged with  *)
(* its kind (field t) and, when it has one, its payload (field v):         *)
(*   undefined, null, boolean, number, string, array (a sequence of        *)
(*   values) and object (a sequence of [k, v] entries in insertion order,  *)
(*   keys distinct).                                                       *)
(* Strings are TLA+ strings; case conversion, trimming and the regular     *)
(* expressions of the code are computed character by character.            *)
(***************************************************************************)
EXTENDS Integers, Sequences, FiniteSets, TLC

VARIABLES
    op,         \* the function that was called last ("none" before any call)
    args,       \* its arguments
    thrown,     \* TRUE when the call raised a TypeError instead of returning
    result,     \* the value it returned (NoResult when it threw)
    storedTokens,       \* the module variable storedTokens of the Allegro client
    calls,              \* the allegroFetch calls in flight, one per caller
    exchange,           \* the exchangeOAuthCode call: "idle" or "pending"
    disconnected,       \* disconnectAllegro completed and no code was exchanged since
    refreshRejected     \* a refresh was rejected and no code was exchanged since

callVars == <<op, args, thrown, result>>
clientVars == <<storedTokens, calls, exchange, disconnected, refreshRejected>>
vars == <<op, args, thrown, result, storedTokens, calls, exchange, disconnected,
          refreshRejected>>

(***************************************************************************)
(* JavaScript values                                                       *)
(***************************************************************************)
JUndef == [t |-> "undefined"]
JNull == [t |-> "null"]
JBool(b) == [t |-> "boolean", v |-> b]
JNum(n) == [t |-> "number", v |-> n]
JStr(s) == [t |-> "string", v |-> s]
JArr(items) == [t |-> "array", v |-> items]
JObj(entries) == [t |-> "object", v |-> entries]
Entry(key, val) == [k |-> key, v |-> val]

NoResult == [t |-> "none"]

\* typeof x
TypeOf(x) ==
    IF x.t \in {"null", "array", "object"} THEN "object" ELSE x.t

\* x == null  (null or undefined)
IsNullish(x) == x.t \in {"null", "undefined"}

\* Array.isArray(x)
IsArray(x) == x.t = "array"

\* ToBoolean(x): the truthiness used by !x, x || y and x ? a : b
Truthy(x) ==
    CASE x.t \in {"undefined", "null"} -> FALSE
      [] x.t = "boolean" -> x.v
      [] x.t = "number" -> x.v # 0
      [] x.t = "string" -> x.v # ""
      [] OTHER -> TRUE

Digit(d) == SubSeq("0123456789", d + 1, d + 1)

RECURSIVE NatToString(_)
NatToString(n) ==
    IF n < 10 THEN Digit(n) ELSE NatToString(n \div 10) \o Digit(n % 10)

\* String(n) for an integer
IntToString(n) == IF n < 0 THEN "-" \o NatToString(-n) ELSE NatToString(n)

\* Object.entries(x): own enumerable entries, array indices as string keys
Entries(x) ==
    CASE x.t = "object" -> x.v
      [] x.t = "array" -> [i \in 1..Len(x.v) |-> Entry(IntToString(i - 1), x.v[i])]
      [] OTHER -> <<>>

\* key in x
Has(x, key) == \E i \in 1..Len(Entries(x)) : Entries(x)[i].k = key

\* x[key] / x.key : undefined when the key is absent
Get(x, key) ==
    IF Has(x, key)
    THEN Entries(x)[CHOOSE i \in 1..Len(Entries(x)) : Entries(x)[i].k = key].v
    ELSE JUndef

\* Object.values(x)
Values(x) == [i \in 1..Len(Entries(x)) |-> Entries(x)[i].v]

(***************************************************************************)
(* Strings                                                                 *)
(***************************************************************************)
LowerLetters == "abcdefghijklmnopqrstuvwxyz"
UpperLetters == "ABCDEFGHIJKLMNOPQRSTUVWXYZ"

\* the character of s at position i, the empty string outside of s
CharAt(s, i) == IF i \in 1..Len(s) THEN SubSeq(s, i, i) ELSE ""

UpperChar(c) ==
    IF \E i \in 1..26 : CharAt(LowerLetters, i) = c
    THEN CharAt(UpperLetters, CHOOSE i \in 1..26 : CharAt(LowerLetters, i) = c)
    ELSE c

LowerChar(c) ==
    IF \E i \in 1..26 : CharAt(UpperLetters, i) = c
    THEN CharAt(LowerLetters, CHOOSE i \in 1..26 : CharAt(UpperLetters, i) = c)
    ELSE c

RECURSIVE toUpperCase(_)
toUpperCase(s) ==
    IF s = "" THEN "" ELSE UpperChar(CharAt(s, 1)) \o toUpperCase(Tail(s))

RECURSIVE toLowerCase(_)
toLowerCase(s) ==
    IF s = "" THEN "" ELSE LowerChar(CharAt(s, 1)) \o toLowerCase(Tail(s))

\* white space; the strings of the model hold no other white space than " "
IsSpace(c) == c = " "

\* s.trim() === ''
IsBlank(s) == \A i \in 1..Len(s) : IsSpace(CharAt(s, i))

\* the text of s from position i on
From(s, i) == IF i \in 1..Len(s) THEN SubSeq(s, i, Len(s)) ELSE ""

\* s.startsWith(p)
StartsWith(s, p) == p = "" \/ (Len(p) <= Len(s) /\ SubSeq(s, 1, Len(p)) = p)

\* s has p as a substring
Contains(s, p) == \E i \in 1..(Len(s) + 1) : StartsWith(From(s, i), p)

\* /a.?b/ : a, at most one character that is not a line break, then b
ContainsGap(s, a, b) ==
    \E i \in 1..(Len(s) + 1) :
        /\ StartsWith(From(s, i), a)
        /\ \/ StartsWith(From(s, i + Len(a)), b)
           \/ /\ i + Len(a) <= Len(s)
              /\ StartsWith(From(s, i + Len(a) + 1), b)

\* /a ?b/ : a, an optional space, then b
ContainsOptSpace(s, a, b) == Contains(s, a \o b) \/ Contains(s, a \o " " \o b)

(***************************************************************************)
(* codes: mapping, inference from free text, severity and retryability     *)
(***************************************************************************)
KnownCodes ==
    {"NO_ACCESS", "VALIDATION", "UNAUTHENTICATED", "FORBIDDEN", "NOT_FOUND",
     "CONFLICT", "RATE_LIMIT", "UNAVAILABLE", "DEPRECATED_FIELD", "MAINTENANCE",
     "INTERNAL", "INVALID_RESPONSE"}

\* the type ErrorCode
ErrorCode == KnownCodes \cup {"UNKNOWN"}

\* the type Severity
Severity == {"info", "warning", "error"}

CODE_MAP == [c \in KnownCodes |-> c]

\* what a call of a method that the receiver does not have raises; not an ErrorCode
TypeError == "TypeError"

\* normalizeCode, were a code that is not in the table passed through
normalizeCodePassThrough(raw) ==
    IF ~Truthy(raw) THEN "UNKNOWN"
    ELSE IF raw.t # "string" THEN TypeError
    ELSE toUpperCase(raw.v)

\* normalizeCode(raw): raw.toUpperCase() is not a function unless raw is a string,
\* and calling it raises a TypeError
normalizeCode(raw) ==
    IF ~Truthy(raw) THEN "UNKNOWN"
    ELSE IF raw.t # "string" THEN TypeError
    ELSE IF toUpperCase(raw.v) \in DOMAIN CODE_MAP
         THEN CODE_MAP[toUpperCase(raw.v)]
         ELSE "UNKNOWN"

\* PATTERNS[n][0].test(str), on l, the text in lower case (the patterns ignore case)
PatternMatches(n, l) ==
    CASE n = 1 -> \/ Contains(l, "no access") \/ Contains(l, "missing permission")
                  \/ Contains(l, "missing group") \/ Contains(l, "account locked")
      [] n = 2 -> \/ Contains(l, "validat") \/ Contains(l, "invalid")
                  \/ Contains(l, "required") \/ Contains(l, "format")
      [] n = 3 -> \/ Contains(l, "unauth") \/ ContainsOptSpace(l, "log", "in")
                  \/ Contains(l, "session") \/ Contains(l, "expired")
      [] n = 4 -> Contains(l, "forbidden") \/ Contains(l, "no permission")
      [] n = 5 -> Contains(l, "not found")
      [] n = 6 -> Contains(l, "conflict") \/ Contains(l, "version mismatch")
      [] n = 7 -> ContainsGap(l, "rate", "limit") \/ Contains(l, "too many")
      [] n = 8 -> \/ Contains(l, "unavailable") \/ ContainsGap(l, "try", "later")
                  \/ Contains(l, "maintenance")
      [] n = 9 -> Contains(l, "deprecated") \/ Contains(l, "will be removed")

\* PATTERNS[n][1]
PATTERNS ==
    <<"NO_ACCESS", "VALIDATION", "UNAUTHENTICATED", "FORBIDDEN", "NOT_FOUND",
      "CONFLICT", "RATE_LIMIT", "UNAVAILABLE", "DEPRECATED_FIELD">>

RECURSIVE inferCodeFrom(_, _)
\* the loop over PATTERNS from the n-th on: the first pattern that matches decides
inferCodeFrom(l, n) ==
    IF n > Len(PATTERNS) THEN "UNKNOWN"
    ELSE IF PatternMatches(n, l) THEN PATTERNS[n]
    ELSE inferCodeFrom(l, n + 1)

inferCodeFromString(str) == inferCodeFrom(toLowerCase(str), 1)

PathChars == LowerLetters \o UpperLetters \o "0123456789_.[]"

\* the class [\w.[\]]
IsPathChar(c) == \E i \in 1..Len(PathChars) : SubSeq(PathChars, i, i) = c

\* first position from i on that holds no white space
SkipSpaces(s, i) ==
    CHOOSE j \in i..(Len(s) + 1) :
        /\ \A k \in i..(j - 1) : IsSpace(CharAt(s, k))
        /\ j = Len(s) + 1 \/ ~IsSpace(CharAt(s, j))

\* last position of the longest run of path characters that starts at i
RunEnd(s, i) ==
    CHOOSE j \in (i - 1)..Len(s) :
        /\ \A k \in i..j : IsPathChar(CharAt(s, k))
        /\ j = Len(s) \/ ~IsPathChar(CharAt(s, j + 1))

\* /access to\s+([\w.[\]]+)/i matches s at position i; l is s in lower case
AccessToAt(s, l, i) ==
    /\ StartsWith(From(l, i), "access to")
    /\ IsSpace(CharAt(s, i + 9))
    /\ RunEnd(s, SkipSpaces(s, i + 9)) >= SkipSpaces(s, i + 9)

\* where the path begins after "path", an optional colon and white space
PathStart(s, i) ==
    IF CharAt(s, i + 4) = ":" THEN SkipSpaces(s, i + 5) ELSE SkipSpaces(s, i + 4)

\* /path:?\s*([\w.[\]]+)/i matches s at position i; l is s in lower case
PathAt(s, l, i) ==
    /\ StartsWith(From(l, i), "path")
    /\ RunEnd(s, PathStart(s, i)) >= PathStart(s, i)

\* the leftmost position where P holds
Leftmost(s, l, P(_, _, _)) ==
    CHOOSE i \in 1..Len(s) : P(s, l, i) /\ \A j \in 1..(i - 1) : ~P(s, l, j)

extractPathFrom(str, l) ==
    IF \E i \in 1..Len(str) : AccessToAt(str, l, i)
    THEN LET k == SkipSpaces(str, Leftmost(str, l, AccessToAt) + 9)
         IN JStr(SubSeq(str, k, RunEnd(str, k)))
    ELSE IF \E i \in 1..Len(str) : PathAt(str, l, i)
    THEN LET k == PathStart(str, Leftmost(str, l, PathAt))
         IN JStr(SubSeq(str, k, RunEnd(str, k)))
    ELSE JUndef

extractPathFromString(str) == extractPathFrom(str, toLowerCase(str))

inferSeverity(code) ==
    IF code \in {"MAINTENANCE", "DEPRECATED_FIELD"} THEN "warning" ELSE "error"

isRetryable(code) == code = "RATE_LIMIT" \/ code = "UNAVAILABLE"

(***************************************************************************)
(* normalize: any error format to a sequence of NormalizedError            *)
(*                                                                         *)
(* A NormalizedError is a record [code, message, path, severity,           *)
(* retryable, meta].  message, path and meta are JavaScript values, since  *)
(* the code copies them from the source without converting them; an        *)
(* optional attribute that is not set is undefined.                        *)
(***************************************************************************)
NormalizedError(code, message, path, severity, retryable, meta) ==
    [code |-> code, message |-> message, path |-> path,
     severity |-> severity, retryable |-> retryable, meta |-> meta]

RECURSIVE Flatten(_)
\* the concatenation of a sequence of sequences
Flatten(seqs) ==
    IF Len(seqs) = 0 THEN <<>> ELSE Head(seqs) \o Flatten(Tail(seqs))

\* a ?? b
Coalesce(a, b) == IF IsNullish(a) THEN b ELSE a

fromStringWith(str, code) ==
    NormalizedError(code, JStr(str), extractPathFromString(str),
                    inferSeverity(code), isRetryable(code), JUndef)

fromString(str) == fromStringWith(str, inferCodeFromString(str))

\* a canonical array index used as a property key: "0", "1", "2", ...
IsIndexKey(key) ==
    /\ key # ""
    /\ \A i \in 1..Len(key) : Contains("0123456789", CharAt(key, i))
    /\ Len(key) > 1 => CharAt(key, 1) # "0"

RECURSIVE ParseNat(_)
ParseNat(key) ==
    IF key = "" THEN 0
    ELSE 10 * ParseNat(SubSeq(key, 1, Len(key) - 1))
         + (CHOOSE d \in 0..9 : Digit(d) = CharAt(key, Len(key)))

\* does the entry with key a come before a new entry with key b
KeyBefore(a, b) ==
    IF IsIndexKey(b) THEN IsIndexKey(a) /\ ParseNat(a) < ParseNat(b) ELSE TRUE

\* obj[key] = val on the entries of an object: an existing key keeps its place,
\* a new index key goes among the index keys in ascending order, any other new
\* key goes last
SetProp(entries, key, val) ==
    IF \E i \in 1..Len(entries) : entries[i].k = key
    THEN [i \in 1..Len(entries) |->
            IF entries[i].k = key THEN Entry(key, val) ELSE entries[i]]
    ELSE LET n == Cardinality({i \in 1..Len(entries) : KeyBefore(entries[i].k, key)})
         IN SubSeq(entries, 1, n) \o <<Entry(key, val)>>
            \o SubSeq(entries, n + 1, Len(entries))

RECURSIVE AssignAll(_, _)
\* Object.assign on entries: every source entry set in turn
AssignAll(entries, source) ==
    IF Len(source) = 0 THEN entries
    ELSE AssignAll(SetProp(entries, Head(source).k, Head(source).v), Tail(source))

MetaSkip == {"code", "message", "msg", "path", "severity", "retryable"}

RECURSIVE SelectExtras(_)
\* the entries of err that buildMeta collects
SelectExtras(entries) ==
    IF Len(entries) = 0 THEN <<>>
    ELSE IF Head(entries).k \notin MetaSkip /\ Head(entries).v.t # "undefined"
         THEN <<Head(entries)>> \o SelectExtras(Tail(entries))
         ELSE SelectExtras(Tail(entries))

\* buildMeta, were a key of the source to win over the same key of the
\* explicit meta object
buildMetaSourceWins(err) ==
    LET extras == AssignAll(<<>>, SelectExtras(Entries(err)))
        explicit == Get(err, "meta")
        merge == TypeOf(explicit) = "object" /\ explicit.t # "null"
    IN  IF merge THEN JObj(AssignAll(Entries(explicit), extras))
        ELSE IF Len(extras) > 0 THEN JObj(extras)
        ELSE JUndef

buildMeta(err) ==
    LET extras == AssignAll(<<>>, SelectExtras(Entries(err)))
        explicit == Get(err, "meta")
        merge == TypeOf(explicit) = "object" /\ explicit.t # "null"
    IN  IF merge THEN JObj(AssignAll(extras, Entries(explicit)))
        ELSE IF Len(extras) > 0 THEN JObj(extras)
        ELSE JUndef

\* fromObject raises when normalizeCode does
fromObjectThrows(err) == normalizeCode(Get(err, "code")) = TypeError

fromObjectSeverity(err) ==
    IF Get(err, "severity").t = "string" /\ Get(err, "severity").v \in Severity
    THEN Get(err, "severity").v
    ELSE inferSeverity(normalizeCode(Get(err, "code")))

fromObjectMessage(err) ==
    Coalesce(Coalesce(Get(err, "message"), Get(err, "msg")), JStr("Unknown error"))

fromObjectRetryable(err) ==
    \/ Get(err, "retryable").t = "boolean" /\ Get(err, "retryable").v
    \/ isRetryable(normalizeCode(Get(err, "code")))

fromObject(err) ==
    NormalizedError(normalizeCode(Get(err, "code")), fromObjectMessage(err),
                    Coalesce(Get(err, "path"), JUndef), fromObjectSeverity(err),
                    fromObjectRetryable(err), buildMeta(err))

\* fromValidationMap, were 'input.' put before every field name
fromValidationMapAlwaysPrefixed(map) ==
    Flatten([f \in 1..Len(Entries(map)) |->
        [m \in 1..Len(Entries(map)[f].v.v) |->
            NormalizedError("VALIDATION", Entries(map)[f].v.v[m],
                JStr("input." \o Entries(map)[f].k), "error", FALSE, JUndef)]])

fromValidationMap(map) ==
    Flatten([f \in 1..Len(Entries(map)) |->
        [m \in 1..Len(Entries(map)[f].v.v) |->
            NormalizedError("VALIDATION", Entries(map)[f].v.v[m],
                IF StartsWith(Entries(map)[f].k, "input.")
                THEN JStr(Entries(map)[f].k)
                ELSE JStr("input." \o Entries(map)[f].k),
                "error", FALSE, JUndef)]])

\* String(x) for the array elements that are neither strings nor objects
ToStringPrimitive(x) ==
    CASE x.t = "number" -> IntToString(x.v)
      [] x.t = "boolean" -> IF x.v THEN "true" ELSE "false"
      [] x.t = "null" -> "null"
      [] OTHER -> "undefined"

\* every value is an array of strings, and there is at least one value
IsValidationMap(obj) ==
    /\ Len(Values(obj)) > 0
    /\ \A i \in 1..Len(Values(obj)) :
        /\ IsArray(Values(obj)[i])
        /\ \A j \in 1..Len(Values(obj)[i].v) : Values(obj)[i].v[j].t = "string"

IsErrorObject(obj) == Has(obj, "code") \/ Has(obj, "message") \/ Has(obj, "msg")

normalizeItem(item) ==
    IF item.t = "string" THEN <<fromString(item.v)>>
    ELSE IF TypeOf(item) = "object" /\ item.t # "null" THEN <<fromObject(item)>>
    ELSE <<NormalizedError("UNKNOWN", JStr(ToStringPrimitive(item)), JUndef,
                           "error", FALSE, JUndef)>>

\* normalizeErrors raises when one of its fromObject calls does
normalizeErrorsThrows(raw) ==
    CASE IsArray(raw) ->
            \E i \in 1..Len(raw.v) :
                /\ TypeOf(raw.v[i]) = "object" /\ raw.v[i].t # "null"
                /\ fromObjectThrows(raw.v[i])
      [] raw.t = "object" ->
            ~IsValidationMap(raw) /\ IsErrorObject(raw) /\ fromObjectThrows(raw)
      [] OTHER -> FALSE

normalizeErrors(raw) ==
    IF IsNullish(raw) THEN <<>>
    ELSE IF raw.t = "string"
    THEN (IF IsBlank(raw.v) THEN <<>> ELSE <<fromString(raw.v)>>)
    ELSE IF IsArray(raw)
    THEN Flatten([i \in 1..Len(raw.v) |-> normalizeItem(raw.v[i])])
    ELSE IF raw.t = "object" /\ IsValidationMap(raw) THEN fromValidationMap(raw)
    ELSE IF raw.t = "object" /\ IsErrorObject(raw) THEN <<fromObject(raw)>>
    ELSE <<NormalizedError("UNKNOWN", JStr("Nieznany format bledu"), JUndef, "error",
                           FALSE, JObj(<<Entry("rawValue", raw)>>))>>

(***************************************************************************)
(* detect: the shape of a response body                                    *)
(***************************************************************************)
\* detectShapeErrors, were a body with a data field 'standard' whatever the
\* object its errors field holds
detectShapeErrorsDataFirst(obj) ==
    LET errors == Get(obj, "errors") IN
    IF errors.t = "string" THEN "string-errors"
    ELSE IF IsArray(errors)
    THEN (IF Len(errors.v) = 0
          THEN (IF Has(obj, "data") THEN "standard" ELSE "unknown")
          ELSE IF errors.v[1].t = "string" THEN "string-errors"
          ELSE IF TypeOf(errors.v[1]) = "object" THEN "standard"
          ELSE "unknown")
    ELSE IF Has(obj, "data") THEN "standard"
    ELSE IF ~IsNullish(errors) /\ IsValidationMap(errors) THEN "validation-map"
    ELSE "unknown"

detectShapeErrors(obj) ==
    LET errors == Get(obj, "errors") IN
    IF errors.t = "string" THEN "string-errors"
    ELSE IF IsArray(errors)
    THEN (IF Len(errors.v) = 0
          THEN (IF Has(obj, "data") THEN "standard" ELSE "unknown")
          ELSE IF errors.v[1].t = "string" THEN "string-errors"
          ELSE IF TypeOf(errors.v[1]) = "object" THEN "standard"
          ELSE "unknown")
    ELSE IF IsNullish(errors)
    THEN (IF Has(obj, "data") THEN "standard" ELSE "unknown")
    ELSE IF TypeOf(errors) = "object" /\ ~IsArray(errors) /\ IsValidationMap(errors)
    THEN "validation-map"
    ELSE IF Has(obj, "data") THEN "standard"
    ELSE "unknown"

detectShape(body) ==
    IF IsNullish(body) THEN "empty"
    ELSE IF body.t = "string" THEN "plain-text"
    ELSE IF TypeOf(body) # "object" THEN "unknown"
    ELSE IF /\ Has(body, "error")
            /\ TypeOf(Get(body, "error")) = "object"
            /\ Get(body, "error").t # "null"
    THEN "single-error"
    ELSE IF Has(body, "errors") THEN detectShapeErrors(body)
    ELSE IF Has(body, "data") THEN "standard"
    ELSE "unknown"

(***************************************************************************)
(* classify                                                                *)
(***************************************************************************)
\* classifyResult, were any error to make a failure, data or no data
classifyResultAnyErrorFails(httpStatus, data, errors) ==
    IF httpStatus >= 400 THEN "failure"
    ELSE IF Len(errors) > 0 THEN "failure"
    ELSE "success"

\* classifyResult, were the status test to start at 300
classifyResultFrom300(httpStatus, data, errors) ==
    IF httpStatus >= 300 THEN "failure"
    ELSE IF IsNullish(data) /\ Len(errors) > 0 THEN "failure"
    ELSE IF ~IsNullish(data) /\ Len(errors) > 0 THEN "partial"
    ELSE "success"

classifyResult(httpStatus, data, errors) ==
    IF httpStatus >= 400 THEN "failure"
    ELSE IF IsNullish(data) /\ Len(errors) > 0 THEN "failure"
    ELSE IF ~IsNullish(data) /\ Len(errors) > 0 THEN "partial"
    ELSE "success"

(***************************************************************************)
(* validate: the schemas built by s.*                                      *)
(*                                                                         *)
(* A schema is a record tagged by its builder (field s): string, number,   *)
(* boolean, unknown, nullable/optional/array (field inner), object (field  *)
(* shape, a sequence of [k, v] entries), literal (field expected) and      *)
(* union (field schemas).  NoSchema stands for an omitted schema argument. *)
(***************************************************************************)
NoSchema == [s |-> "none"]
SString == [s |-> "string"]
SNumber == [s |-> "number"]
SBoolean == [s |-> "boolean"]
SUnknown == [s |-> "unknown"]
SNullable(inner) == [s |-> "nullable", inner |-> inner]
SOptional(inner) == [s |-> "optional", inner |-> inner]
SArray(itemSchema) == [s |-> "array", inner |-> itemSchema]
SObject(shape) == [s |-> "object", shape |-> shape]
SLiteral(expected) == [s |-> "literal", expected |-> expected]
SUnion(schemas) == [s |-> "union", schemas |-> schemas]

makeError(path, message) ==
    NormalizedError("INVALID_RESPONSE", JStr(message), JStr(path), "error", FALSE, JUndef)

\* ValidationResult
Ok(value) == [ok |-> TRUE, value |-> value]
Fail(errors) == [ok |-> FALSE, errors |-> errors]

RECURSIVE Join(_, _)
\* parts.join(sep)
Join(parts, sep) ==
    IF Len(parts) = 0 THEN ""
    ELSE IF Len(parts) = 1 THEN parts[1]
    ELSE parts[1] \o sep \o Join(Tail(parts), sep)

RECURSIVE SelectDefined(_)
\* the entries whose value is not undefined (JSON.stringify leaves the others out)
SelectDefined(entries) ==
    IF Len(entries) = 0 THEN <<>>
    ELSE IF Head(entries).v.t # "undefined"
         THEN <<Head(entries)>> \o SelectDefined(Tail(entries))
         ELSE SelectDefined(Tail(entries))

RECURSIVE JsonStringify(_)
\* JSON.stringify(x) inside a template literal; the strings of the model hold
\* no character that needs escaping
JsonStringify(x) ==
    CASE x.t = "string" -> "\"" \o x.v \o "\""
      [] x.t = "number" -> IntToString(x.v)
      [] x.t = "boolean" -> (IF x.v THEN "true" ELSE "false")
      [] x.t = "null" -> "null"
      [] x.t = "array" ->
            "[" \o Join([i \in 1..Len(x.v) |->
                            IF x.v[i].t = "undefined" THEN "null"
                            ELSE JsonStringify(x.v[i])], ",") \o "]"
      [] x.t = "object" ->
            "{" \o Join([i \in 1..Len(SelectDefined(x.v)) |->
                            "\"" \o SelectDefined(x.v)[i].k \o "\":"
                            \o JsonStringify(SelectDefined(x.v)[i].v)], ",") \o "}"
      [] OTHER -> "undefined"

\* errors with their path prefixed by an array index
PrefixIndex(errors, i) ==
    [e \in 1..Len(errors) |->
        [errors[e] EXCEPT !.path =
            IF Truthy(errors[e].path)
            THEN JStr("[" \o IntToString(i) \o "]." \o errors[e].path.v)
            ELSE JStr("[" \o IntToString(i) \o "]")]]

\* errors with their path prefixed by an object key
PrefixKey(errors, key) ==
    [e \in 1..Len(errors) |->
        [errors[e] EXCEPT !.path =
            IF Truthy(errors[e].path)
            THEN JStr(key \o "." \o errors[e].path.v)
            ELSE JStr(key)]]

\* ElementErrors, were the loop left at the first element that fails
ElementErrorsFirstOnly(results) ==
    IF \A i \in 1..Len(results) : results[i].ok THEN <<>>
    ELSE LET first == CHOOSE i \in 1..Len(results) :
                        ~results[i].ok /\ \A j \in 1..(i - 1) : results[j].ok
         IN  PrefixIndex(results[first].errors, first - 1)

\* the errors of the elements that failed, each prefixed by its index, in order
ElementErrors(results) ==
    Flatten([i \in 1..Len(results) |->
        IF results[i].ok THEN <<>> ELSE PrefixIndex(results[i].errors, i - 1)])

\* FieldErrors, were the loop left at the first field that fails
FieldErrorsFirstOnly(shape, results) ==
    IF \A i \in 1..Len(shape) : results[i].ok THEN <<>>
    ELSE LET first == CHOOSE i \in 1..Len(shape) :
                        ~results[i].ok /\ \A j \in 1..(i - 1) : results[j].ok
         IN  PrefixKey(results[first].errors, shape[first].k)

\* the errors of the fields that failed, each prefixed by its key, in shape order
FieldErrors(shape, results) ==
    Flatten([i \in 1..Len(shape) |->
        IF results[i].ok THEN <<>> ELSE PrefixKey(results[i].errors, shape[i].k)])

\* the entries result[key] = value of the fields that passed, in shape order
PassedEntries(shape, results) ==
    Flatten([i \in 1..Len(shape) |->
        IF results[i].ok THEN <<Entry(shape[i].k, results[i].value)>> ELSE <<>>])

\* unionResult, were the last variant that accepts to decide
unionResultLast(results) ==
    IF \E i \in 1..Len(results) : results[i].ok
    THEN results[CHOOSE i \in 1..Len(results) :
                    /\ results[i].ok
                    /\ \A j \in (i + 1)..Len(results) : ~results[j].ok]
    ELSE Fail(<<makeError("", "No matching union variant")>>)

\* the loop of unionSchema over the results of its variants: the first that
\* accepts is returned, and the errors of the others are dropped
unionResult(results) ==
    IF \E i \in 1..Len(results) : results[i].ok
    THEN results[CHOOSE i \in 1..Len(results) :
                    /\ results[i].ok
                    /\ \A j \in 1..(i - 1) : ~results[j].ok]
    ELSE Fail(<<makeError("", "No matching union variant")>>)

RECURSIVE validate(_, _)
\* schema.validate(data)
validate(schema, data) ==
    CASE schema.s = "string" ->
            IF data.t = "string" THEN Ok(data)
            ELSE Fail(<<makeError("", "Expected string, got " \o TypeOf(data))>>)
      [] schema.s = "number" ->      \* a decoded JSON number is never NaN
            IF data.t = "number" THEN Ok(data)
            ELSE Fail(<<makeError("", "Expected number, got " \o TypeOf(data))>>)
      [] schema.s = "boolean" ->
            IF data.t = "boolean" THEN Ok(data)
            ELSE Fail(<<makeError("", "Expected boolean, got " \o TypeOf(data))>>)
      [] schema.s = "nullable" ->
            IF IsNullish(data) THEN Ok(JNull) ELSE validate(schema.inner, data)
      [] schema.s = "optional" ->
            IF data.t = "undefined" THEN Ok(JUndef) ELSE validate(schema.inner, data)
      [] schema.s = "array" ->
            IF ~IsArray(data)
            THEN Fail(<<makeError("", "Expected array, got " \o TypeOf(data))>>)
            ELSE LET results == [i \in 1..Len(data.v) |-> validate(schema.inner, data.v[i])]
                     errors == ElementErrors(results)
                 IN  IF Len(errors) > 0 THEN Fail(errors)
                     ELSE Ok(JArr([i \in 1..Len(data.v) |-> results[i].value]))
      [] schema.s = "object" ->
            IF TypeOf(data) # "object" \/ data.t = "null" \/ IsArray(data)
            THEN Fail(<<makeError("", "Expected object, got "
                            \o (IF data.t = "null" THEN "null" ELSE TypeOf(data)))>>)
            ELSE LET results == [i \in 1..Len(schema.shape) |->
                                    validate(schema.shape[i].v, Get(data, schema.shape[i].k))]
                     errors == FieldErrors(schema.shape, results)
                 IN  IF Len(errors) > 0 THEN Fail(errors)
                     ELSE Ok(JObj(AssignAll(<<>>, PassedEntries(schema.shape, results))))
      [] schema.s = "literal" ->
            IF data.t = schema.expected.t /\ data = schema.expected
            THEN Ok(schema.expected)
            ELSE Fail(<<makeError("", "Expected " \o JsonStringify(schema.expected)
                                      \o ", got " \o JsonStringify(data))>>)
      [] schema.s = "union" ->
            unionResult([i \in 1..Len(schema.schemas) |->
                            validate(schema.schemas[i], data)])
      [] OTHER -> Ok(data)

(***************************************************************************)
(* parse: the entry point                                                  *)
(***************************************************************************)
SyntheticError(code, message, meta) ==
    NormalizedError(code, JStr(message), JUndef, "error", FALSE, meta)

\* the errors gathered by the switch on the shape
shapeErrors(shape, body) ==
    CASE shape = "empty" ->
            <<SyntheticError("UNKNOWN", "Pusta odpowiedz z serwera", JUndef)>>
      [] shape = "plain-text" ->
            <<SyntheticError("INTERNAL",
                             IF Truthy(body) THEN body.v ELSE "Server error", JUndef)>>
      [] shape = "single-error" -> normalizeErrors(Get(body, "error"))
      [] shape = "validation-map" -> normalizeErrors(Get(body, "errors"))
      [] shape = "string-errors" ->
            IF Has(body, "errors") THEN normalizeErrors(Get(body, "errors")) ELSE <<>>
      [] shape = "standard" ->
            (IF Has(body, "errors") /\ ~IsNullish(Get(body, "errors"))
             THEN normalizeErrors(Get(body, "errors")) ELSE <<>>)
            \o (IF Has(body, "error") /\ ~IsNullish(Get(body, "error"))
                THEN normalizeErrors(Get(body, "error")) ELSE <<>>)
            \o (IF Has(body, "data") /\ Get(body, "data").t = "string"
                THEN <<SyntheticError("INVALID_RESPONSE",
                            "Pole \"data\" ma nieprawidlowy typ: string", JUndef)>>
                ELSE <<>>)
      [] OTHER ->
            <<SyntheticError("UNKNOWN", "Nierozpoznany ksztalt odpowiedzi API",
                             IF TypeOf(body) = "object" THEN body
                             ELSE JObj(<<Entry("rawValue", body)>>))>>

\* shapeData, were the data of a 'string-errors' body not extracted
shapeDataStandardOnly(shape, body) ==
    IF /\ shape = "standard"
       /\ Has(body, "data")
       /\ ~IsNullish(Get(body, "data"))
       /\ Get(body, "data").t # "string"
    THEN Get(body, "data")
    ELSE JNull

\* shapeData, were a data field that holds a string taken for data
shapeDataAnyType(shape, body) ==
    IF /\ shape \in {"string-errors", "standard"}
       /\ Has(body, "data")
       /\ ~IsNullish(Get(body, "data"))
    THEN Get(body, "data")
    ELSE JNull

\* the candidate data extracted by the switch on the shape
shapeData(shape, body) ==
    IF /\ shape \in {"string-errors", "standard"}
       /\ Has(body, "data")
       /\ ~IsNullish(Get(body, "data"))
       /\ Get(body, "data").t # "string"
    THEN Get(body, "data")
    ELSE JNull

\* the switch raises when one of its normalizeErrors calls does
shapeThrows(shape, body) ==
    CASE shape = "single-error" -> normalizeErrorsThrows(Get(body, "error"))
      [] shape = "validation-map" -> normalizeErrorsThrows(Get(body, "errors"))
      [] shape = "string-errors" ->
            Has(body, "errors") /\ normalizeErrorsThrows(Get(body, "errors"))
      [] shape = "standard" ->
            \/ /\ Has(body, "errors") /\ ~IsNullish(Get(body, "errors"))
               /\ normalizeErrorsThrows(Get(body, "errors"))
            \/ /\ Has(body, "error") /\ ~IsNullish(Get(body, "error"))
               /\ normalizeErrorsThrows(Get(body, "error"))
      [] OTHER -> FALSE

\* PrefixData, were an error without a path located at the data field itself
PrefixDataKeepRoot(errors) ==
    [e \in 1..Len(errors) |->
        [errors[e] EXCEPT !.path =
            IF Truthy(errors[e].path) THEN JStr("data." \o errors[e].path.v)
            ELSE JStr("data")]]

\* the validation errors as the entry point appends them
PrefixData(errors) ==
    [e \in 1..Len(errors) |->
        [errors[e] EXCEPT !.path =
            IF Truthy(errors[e].path) THEN JStr("data." \o errors[e].path.v)
            ELSE JUndef]]

ApiResult(kind, data, errors, httpStatus) ==
    [kind |-> kind, data |-> data, errors |-> errors, httpStatus |-> httpStatus]

parseApiResponseThrows(httpStatus, body, schema) ==
    shapeThrows(detectShape(body), body)

parseApiResponse(httpStatus, body, schema) ==
    LET shape == detectShape(body)
        errors0 == shapeErrors(shape, body)
        data0 == shapeData(shape, body)
        validated == schema.s # "none" /\ ~IsNullish(data0)
        validation == IF validated THEN validate(schema, data0) ELSE Ok(data0)
        errors == IF validation.ok THEN errors0
                  ELSE errors0 \o PrefixData(validation.errors)
        data == IF validation.ok THEN validation.value ELSE data0
    IN  ApiResult(classifyResult(httpStatus, data, errors), data, errors, httpStatus)

(***************************************************************************)
(* helpers: what the interface reads from the errors                       *)
(***************************************************************************)
\* errors.filter(e => e.path === path)
getFieldErrors(errors, path) ==
    SelectSeq(errors, LAMBDA e : e.path.t = "string" /\ e.path.v = path)

\* getFieldState, were the severity looked at before the code
getFieldStateSeverityFirst(errors, path) ==
    LET fieldErrors == getFieldErrors(errors, path)
        some(P(_)) == \E i \in 1..Len(fieldErrors) : P(fieldErrors[i])
    IN  IF Len(fieldErrors) = 0 THEN "ok"
        ELSE IF some(LAMBDA e : e.severity = "error") THEN "error"
        ELSE IF some(LAMBDA e : e.severity = "warning") THEN "warning"
        ELSE IF some(LAMBDA e : e.code = "NO_ACCESS") THEN "locked"
        ELSE IF some(LAMBDA e : e.code = "FORBIDDEN") THEN "denied"
        ELSE "error"

getFieldState(errors, path) ==
    LET fieldErrors == getFieldErrors(errors, path)
        some(P(_)) == \E i \in 1..Len(fieldErrors) : P(fieldErrors[i])
    IN  IF Len(fieldErrors) = 0 THEN "ok"
        ELSE IF some(LAMBDA e : e.code = "NO_ACCESS") THEN "locked"
        ELSE IF some(LAMBDA e : e.code = "FORBIDDEN") THEN "denied"
        ELSE IF some(LAMBDA e : e.severity = "error") THEN "error"
        ELSE IF some(LAMBDA e : e.severity = "warning") THEN "warning"
        ELSE "error"

RECURSIVE Distinct(_)
\* new Set(values), in insertion order
Distinct(values) ==
    IF Len(values) = 0 THEN <<>>
    ELSE LET rest == Distinct(SubSeq(values, 1, Len(values) - 1))
             last == values[Len(values)]
         IN  IF \E i \in 1..Len(rest) : rest[i] = last THEN rest
             ELSE Append(rest, last)

\* the Map path -> FieldState, as its entries in insertion order
buildFieldStateMap(errors) ==
    LET withPath == SelectSeq(errors, LAMBDA e : Truthy(e.path))
        paths == Distinct([i \in 1..Len(withPath) |-> withPath[i].path.v])
    IN  [i \in 1..Len(paths) |-> [k |-> paths[i], v |-> getFieldState(errors, paths[i])]]

\* result.errors.some(e => e.code === 'UNAUTHENTICATED')
requiresAuth(res) ==
    \E i \in 1..Len(res.errors) : res.errors[i].code = "UNAUTHENTICATED"

(***************************************************************************)
(* fetchAllegroPermissions: the responses it builds itself when the call   *)
(* cannot be authenticated                                                 *)
(***************************************************************************)
\* isConnected() is false; allegroFetch threw NOT_CONNECTED; allegroFetch threw
\* TOKEN_REFRESH_FAILED
AuthFailures == {"not-connected", "NOT_CONNECTED", "TOKEN_REFRESH_FAILED"}

\* { errors: [{ message, code }] }
ErrorsBody(message, code) ==
    JObj(<<Entry("errors",
           JArr(<<JObj(<<Entry("message", JStr(message)), Entry("code", JStr(code))>>)>>))>>)

\* the { status, body } returned for an authentication failure
authFailureResponse(failure) ==
    CASE failure = "not-connected" ->
            [status |-> 401,
             body |-> ErrorsBody("Not connected to Allegro. Please connect first.",
                                 "UNAUTHENTICATED")]
      [] failure = "NOT_CONNECTED" ->
            [status |-> 401,
             body |-> ErrorsBody("Not connected to Allegro", "UNAUTHENTICATED")]
      [] failure = "TOKEN_REFRESH_FAILED" ->
            [status |-> 401,
             body |-> ErrorsBody("Session expired. Please reconnect.", "TOKEN_EXPIRED")]

(***************************************************************************)
(* The inputs the calls are made with                                      *)
(***************************************************************************)
\* longest errors array of a body
MaxErrors == 2

\* marks a field that an object is built without
Absent == [t |-> "absent"]
Opt(key, val) == IF val.t = "absent" THEN <<>> ELSE <<Entry(key, val)>>

SeqsUpTo(S, n) == UNION {[1..k -> S] : k \in 0..n}

Statuses == {200, 399, 400, 503}

\* values of the fields of an error object
CodeValues ==
    {Absent, JNull, JStr(""), JStr("RATE_LIMIT"), JStr("not_found"),
     JStr("Deprecated_Field"), JStr("E_CUSTOM"), JNum(0), JNum(404), JBool(TRUE)}
MessageValues == {Absent, JNull, JStr(""), JStr("Too many requests"), JNum(5)}
MsgValues == {Absent, JStr("Try later")}
SeverityValues == {Absent, JStr("info"), JStr("fatal"), JNum(2)}
RetryableValues == {Absent, JBool(TRUE), JBool(FALSE), JStr("yes")}
ExtraValues ==
    {<<>>,
     <<Entry("retryAfter", JNum(10))>>,
     <<Entry("path", JStr("data.phone")), Entry("expected", JNum(2)),
       Entry("meta", JObj(<<Entry("expected", JNum(3))>>))>>}

ErrorObjects ==
    {JObj(Opt("code", c) \o Opt("message", m) \o Opt("msg", g) \o Opt("severity", v)
          \o Opt("retryable", r) \o x) :
        c \in CodeValues, m \in MessageValues, g \in MsgValues,
        v \in SeverityValues, r \in RetryableValues, x \in ExtraValues}

\* elements of an errors array
ItemValues ==
    {JStr("oops"), JStr(""), JStr("No access to data.phone, missing group"),
     JNull, JNum(7),
     JObj(<<Entry("code", JStr("NO_ACCESS")), Entry("path", JStr("data.phone")),
            Entry("message", JStr("Missing group"))>>),
     JObj(<<Entry("code", JNum(404)), Entry("message", JStr("Not found"))>>)}

ValidationMaps ==
    {JObj(<<Entry("phone", JArr(<<JStr("Invalid format"), JStr("Too short")>>)),
            Entry("input.surname", JArr(<<JStr("Required")>>))>>),
     JObj(<<Entry("phone", JArr(<<JStr("")>>))>>),
     JObj(<<Entry("phone", JArr(<<>>))>>)}

\* values of the errors field of a body, the arrays apart
ErrorsValues ==
    {Absent, JNull, JStr("something went wrong"), JStr("  "), JNum(1), JObj(<<>>),
     JObj(<<Entry("code", JStr("CONFLICT")), Entry("message", JStr("Version mismatch"))>>),
     JObj(<<Entry("phone", JArr(<<JStr("Required")>>)), Entry("age", JNum(3))>>)}
    \cup ValidationMaps

\* the arrays that the errors field of a body holds
ErrorsArrays == {JArr(a) : a \in SeqsUpTo(ItemValues, MaxErrors)}

\* values of the error field of a body
ErrorValues ==
    {Absent, JNull, JStr("Unauthorized"), JStr(""), JNum(1), JArr(<<>>), JObj(<<>>),
     JObj(<<Entry("code", JStr("UNAUTHENTICATED")), Entry("message", JStr("Please log in"))>>),
     JObj(<<Entry("code", JNum(404)), Entry("message", JStr("Not found"))>>)}

\* values of the error field of a body whose errors field holds an array
ErrorValuesWithArray ==
    {Absent, JStr("Unauthorized"),
     JObj(<<Entry("code", JStr("UNAUTHENTICATED")), Entry("message", JStr("Please log in"))>>)}

\* values of the data field of a body
DataValues ==
    {Absent, JNull, JStr("OK"), JNum(1),
     JObj(<<Entry("name", JStr("Andrzej")), Entry("phone", JNull)>>),
     JArr(<<JObj(<<Entry("id", JStr("1")), Entry("price", JNum(10))>>)>>)}

ObjectBody(d, es, e) == JObj(Opt("data", d) \o Opt("errors", es) \o Opt("error", e))

ObjectBodies ==
    {ObjectBody(d, es, e) : d \in DataValues, es \in ErrorsValues, e \in ErrorValues}
    \cup {ObjectBody(d, es, e) :
            d \in DataValues, es \in ErrorsArrays, e \in ErrorValuesWithArray}

Bodies ==
    {JUndef, JNull, JStr(""), JStr("Internal Server Error"), JNum(3), JBool(FALSE),
     JArr(<<JNum(1)>>),
     JObj(<<Entry("payload", JObj(<<Entry("x", JNum(1))>>)),
            Entry("issues", JArr(<<JObj(<<Entry("msg", JStr("??"))>>)>>))>>)}
    \cup ObjectBodies

\* arguments of normalizeErrors
RawValues ==
    {JUndef, JNull, JStr(""), JStr("  "), JStr("Unauthorized"), JStr("rate-limit hit"),
     JStr("Bad path: data.items[2].price"), JNum(1), JBool(TRUE), JObj(<<>>)}
    \cup ErrorObjects \cup ValidationMaps \cup ErrorsArrays

\* schemas built from s.*
OrderSchema == SObject(<<Entry("id", SString), Entry("price", SNumber)>>)
UserSchema == SObject(<<Entry("name", SString), Entry("phone", SNullable(SString))>>)
ItemsSchema ==
    SObject(<<Entry("items", SArray(SObject(<<Entry("price", SNumber)>>)))>>)

Schemas ==
    {SString, SNumber, SBoolean, SUnknown, SNullable(SNumber), SOptional(SString),
     SLiteral(JNum(1)), SLiteral(JStr("OK")), SUnion(<<SString, SNumber>>),
     SUnion(<<>>), SUnion(<<SString, SNullable(SNumber), SOptional(SString)>>), SArray(OrderSchema), UserSchema, ItemsSchema}

\* candidate data of the calls made with a schema
SchemaDataValues ==
    {JNum(1), JBool(TRUE), JObj(<<>>), JArr(<<>>),
     JObj(<<Entry("name", JStr("Andrzej")), Entry("phone", JNull)>>),
     JObj(<<Entry("name", JNum(123)), Entry("phone", JNum(48)), Entry("age", JNum(30))>>),
     JObj(<<Entry("name", JStr("Andrzej")), Entry("phone", JStr("+48")),
            Entry("age", JNum(30))>>),
     JArr(<<JObj(<<Entry("id", JStr("1")), Entry("price", JNum(10))>>)>>),
     JArr(<<JObj(<<Entry("id", JNum(1)), Entry("price", JNum(10))>>),
            JObj(<<Entry("id", JStr("2")), Entry("price", JNum(5))>>),
            JObj(<<Entry("id", JStr("3")), Entry("price", JStr("wrong"))>>)>>),
     JObj(<<Entry("items", JArr(<<JObj(<<Entry("price", JNum(1))>>),
                                  JObj(<<Entry("price", JNum(2))>>),
                                  JObj(<<Entry("price", JStr("x"))>>)>>))>>)}

SchemaBodies ==
    {JObj(<<Entry("data", d)>> \o Opt("errors", es)) :
        d \in SchemaDataValues,
        es \in {Absent, JNull, JArr(<<JStr("oops")>>), JStr("Forbidden")}}

\* arguments of classifyResult
ClassifyData == {JUndef, JNull, JNum(0), JStr(""), JObj(<<>>), JArr(<<>>)}
ClassifyErrors ==
    SeqsUpTo({SyntheticError("UNKNOWN", "Pusta odpowiedz z serwera", JUndef),
              makeError("name", "Expected string, got number")}, MaxErrors)

\* longest errors sequence handed to a helper
MaxFieldErrors == 2

\* errors as the helpers receive them
FieldErrorValues ==
    {NormalizedError("NO_ACCESS", JStr("No access"), JStr("data.phone"), "error", FALSE, JUndef),
     NormalizedError("NO_ACCESS", JStr("No access"), JStr("data.email"), "warning", FALSE, JUndef),
     NormalizedError("FORBIDDEN", JStr("Forbidden"), JStr("data.phone"), "warning", FALSE, JUndef),
     NormalizedError("VALIDATION", JStr("Required"), JStr("data.phone"), "error", FALSE, JUndef),
     NormalizedError("VALIDATION", JStr("Required"), JStr("data.email"), "info", FALSE, JUndef),
     NormalizedError("DEPRECATED_FIELD", JStr("Deprecated"), JStr("data.email"), "warning",
                     FALSE, JUndef),
     NormalizedError("DEPRECATED_FIELD", JStr("Deprecated"), JStr("data.phone"), "info",
                     FALSE, JUndef),
     NormalizedError("UNAUTHENTICATED", JStr("Please log in"), JUndef, "error", FALSE, JUndef),
     makeError("", "Expected object, got string")}

FieldErrorSeqs == SeqsUpTo(FieldErrorValues, MaxFieldErrors)
FieldPaths == {"data.phone", "data.email", "data.name", ""}

(***************************************************************************)
(* The Allegro client: the stored tokens and the calls that use them.      *)
(*                                                                         *)
(* The client runs on one thread; a call runs until its next await and     *)
(* other calls run while it waits.  A step of the model is what a call     *)
(* does between two awaits on the network.  The answers of the token       *)
(* endpoint and of the API, and whether a token is within 60 s of its      *)
(* expiry when it is read, are choices of the environment.                 *)
(***************************************************************************)
\* the callers whose allegroFetch calls may be in flight together
Callers == {"a", "b"}

\* most API requests that one allegroFetch call is followed through
MaxRequests == 3

\* storedTokens = null
NoTokens == [set |-> FALSE]
\* a TokenData; expiring: fewer than 60 s are left of it
TokenData(expiring) == [set |-> TRUE, expiring |-> expiring]

\* isConnected()
isConnected == storedTokens.set

\* the statuses the API answers with
ApiStatuses == {200, 401, 500}

\* an allegroFetch call: where it waits (pc), the call site of the refresh it
\* waits for (ctx: "expiry" in getValidToken, "401" after a 401 response), the
\* API requests it has issued, and how it ended
Call(pc, ctx, requests, outcome, status) ==
    [pc |-> pc, ctx |-> ctx, requests |-> requests, outcome |-> outcome, status |-> status]
IdleCall == Call("idle", "none", 0, "none", 0)

\* the call ends by raising err
Raise(c, err) == [c EXCEPT !.pc = "done", !.outcome = err]
\* the call ends by returning { status, data }
Return(c, status) == [c EXCEPT !.pc = "done", !.outcome = "returned", !.status = status]

\* the body of allegroFetch up to its first await on the network, with the
\* tokens it finds: getValidToken raises NOT_CONNECTED without tokens, starts
\* a refresh for a token near its expiry, and otherwise the request is sent
enterAllegroFetch(c, tokens) ==
    IF ~tokens.set THEN Raise(c, "NOT_CONNECTED")
    ELSE IF tokens.expiring THEN [c EXCEPT !.pc = "secrets", !.ctx = "expiry"]
    ELSE [c EXCEPT !.pc = "api", !.ctx = "none", !.requests = c.requests + 1]

(***************************************************************************)
(* The calls.  The functions are pure and keep no state between calls, so  *)
(* a behaviour is one call: the function that is called, its arguments and *)
(* what it returned or raised.                                             *)
(***************************************************************************)
Init ==
    /\ op = "none"
    /\ args = <<>>
    /\ thrown = FALSE
    /\ result = NoResult
    /\ storedTokens = NoTokens
    /\ calls = [p \in Callers |-> IdleCall]
    /\ exchange = "idle"
    /\ disconnected = FALSE
    /\ refreshRejected = FALSE

Parse(httpStatus, body, schema) ==
    /\ op = "none"
    /\ op' = "parseApiResponse"
    /\ args' = [httpStatus |-> httpStatus, body |-> body, schema |-> schema]
    /\ thrown' = parseApiResponseThrows(httpStatus, body, schema)
    /\ UNCHANGED clientVars
    /\ result' = IF parseApiResponseThrows(httpStatus, body, schema) THEN NoResult
                 ELSE parseApiResponse(httpStatus, body, schema)

\* parseApiResponse(httpStatus, body)
CallParse ==
    \E httpStatus \in Statuses, body \in Bodies : Parse(httpStatus, body, NoSchema)

\* parseApiResponse(httpStatus, body, schema)
CallParseWithSchema ==
    \E httpStatus \in Statuses, body \in SchemaBodies, schema \in Schemas :
        Parse(httpStatus, body, schema)

\* parseApiResponse(response.status, response.body) on the response of
\* fetchAllegroPermissions for an authentication failure
CallParsePermissions ==
    \E failure \in AuthFailures :
        Parse(authFailureResponse(failure).status, authFailureResponse(failure).body,
              NoSchema)

\* normalizeErrors(raw)
CallNormalizeErrors ==
    \E raw \in RawValues :
        /\ op = "none"
        /\ op' = "normalizeErrors"
        /\ args' = [raw |-> raw]
        /\ thrown' = normalizeErrorsThrows(raw)
        /\ UNCHANGED clientVars
        /\ result' = IF normalizeErrorsThrows(raw) THEN NoResult ELSE normalizeErrors(raw)

\* classifyResult(httpStatus, data, errors)
CallClassifyResult ==
    \E httpStatus \in Statuses, data \in ClassifyData, errors \in ClassifyErrors :
        /\ op = "none"
        /\ op' = "classifyResult"
        /\ args' = [httpStatus |-> httpStatus, data |-> data, errors |-> errors]
        /\ thrown' = FALSE
        /\ UNCHANGED clientVars
        /\ result' = classifyResult(httpStatus, data, errors)

\* schema.validate(data)
CallValidate ==
    \E schema \in Schemas, data \in SchemaDataValues \cup {JUndef, JNull, JStr("OK")} :
        /\ op = "none"
        /\ op' = "validate"
        /\ args' = [schema |-> schema, data |-> data]
        /\ thrown' = FALSE
        /\ UNCHANGED clientVars
        /\ result' = validate(schema, data)

\* getFieldState(errors, path)
CallGetFieldState ==
    \E errors \in FieldErrorSeqs, path \in FieldPaths :
        /\ op = "none"
        /\ op' = "getFieldState"
        /\ args' = [errors |-> errors, path |-> path]
        /\ thrown' = FALSE
        /\ UNCHANGED clientVars
        /\ result' = getFieldState(errors, path)

\* buildFieldStateMap(errors)
CallBuildFieldStateMap ==
    \E errors \in FieldErrorSeqs :
        /\ op = "none"
        /\ op' = "buildFieldStateMap"
        /\ args' = [errors |-> errors]
        /\ thrown' = FALSE
        /\ UNCHANGED clientVars
        /\ result' = buildFieldStateMap(errors)

Next ==
    \/ CallGetFieldState
    \/ CallBuildFieldStateMap
    \/ CallParse
    \/ CallParseWithSchema
    \/ CallParsePermissions
    \/ CallNormalizeErrors
    \/ CallClassifyResult
    \/ CallValidate

Spec == Init /\ [][Next]_vars

(***************************************************************************)
(* The steps of the Allegro client                                         *)
(***************************************************************************)
\* allegroFetch(endpoint, options) is called: getValidToken, then the request
StartFetch(p) ==
    /\ calls[p].pc \in {"idle", "done"}
    /\ calls' = [calls EXCEPT ![p] = enterAllegroFetch(IdleCall, storedTokens)]
    /\ UNCHANGED <<storedTokens, exchange, disconnected, refreshRejected>>
    /\ UNCHANGED callVars

\* refreshAccessToken resumes after `await getAllegroSecrets()` and posts
\* storedTokens.refreshToken to the token endpoint; reading the field of
\* tokens that were cleared meanwhile raises a TypeError, which the catch of
\* the 401 path turns into the 401 response
RefreshSend(p) ==
    /\ calls[p].pc = "secrets"
    /\ calls' = [calls EXCEPT ![p] =
            IF storedTokens.set THEN [@ EXCEPT !.pc = "token"]
            ELSE IF @.ctx = "401" THEN Return(@, 401)
            ELSE Raise(@, "TypeError")]
    /\ UNCHANGED <<storedTokens, exchange, disconnected, refreshRejected>>
    /\ UNCHANGED callVars

\* the token endpoint rejects the refresh: the tokens are cleared and
\* TOKEN_REFRESH_FAILED is raised, which the catch of the 401 path turns into
\* the 401 response
RefreshRejected(p) ==
    /\ calls[p].pc = "token"
    /\ storedTokens' = NoTokens
    /\ refreshRejected' = TRUE
    /\ calls' = [calls EXCEPT ![p] =
            IF @.ctx = "401" THEN Return(@, 401) ELSE Raise(@, "TOKEN_REFRESH_FAILED")]
    /\ UNCHANGED <<exchange, disconnected>>
    /\ UNCHANGED callVars

\* the token endpoint answers with new tokens: they are stored; getValidToken
\* goes on to the request with the new access token, the 401 path calls
\* allegroFetch again
RefreshSucceeded(p) ==
    \E expiring \in BOOLEAN :
        LET next == IF calls[p].ctx = "401"
                    THEN enterAllegroFetch(calls[p], TokenData(expiring))
                    ELSE [calls[p] EXCEPT !.pc = "api", !.ctx = "none",
                                          !.requests = @ + 1]
        IN  /\ calls[p].pc = "token"
            /\ next.requests <= MaxRequests
            /\ storedTokens' = TokenData(expiring)
            /\ calls' = [calls EXCEPT ![p] = next]
            /\ UNCHANGED <<exchange, disconnected, refreshRejected>>
            /\ UNCHANGED callVars

\* the API answers the request: a 401 with stored tokens starts a refresh,
\* any other answer is returned
ApiAnswer(p) ==
    \E status \in ApiStatuses :
        /\ calls[p].pc = "api"
        /\ calls' = [calls EXCEPT ![p] =
                IF status = 401 /\ storedTokens.set
                THEN [@ EXCEPT !.pc = "secrets", !.ctx = "401"]
                ELSE Return(@, status)]
        /\ UNCHANGED <<storedTokens, exchange, disconnected, refreshRejected>>
        /\ UNCHANGED callVars

\* time passes: fewer than 60 s are left of the stored token
TokenAges ==
    /\ storedTokens.set /\ ~storedTokens.expiring
    /\ storedTokens' = TokenData(TRUE)
    /\ UNCHANGED <<calls, exchange, disconnected, refreshRejected>>
    /\ UNCHANGED callVars

\* disconnectAllegro()
Disconnect ==
    /\ storedTokens' = NoTokens
    /\ disconnected' = TRUE
    /\ UNCHANGED <<calls, exchange, refreshRejected>>
    /\ UNCHANGED callVars

\* exchangeOAuthCode({ code }) posts the code to the token endpoint
ExchangeSend ==
    /\ exchange = "idle"
    /\ exchange' = "pending"
    /\ UNCHANGED <<storedTokens, calls, disconnected, refreshRejected>>
    /\ UNCHANGED callVars

\* the token endpoint rejects the code: nothing is stored
ExchangeRejected ==
    /\ exchange = "pending"
    /\ exchange' = "idle"
    /\ UNCHANGED <<storedTokens, calls, disconnected, refreshRejected>>
    /\ UNCHANGED callVars

\* the token endpoint answers the code with tokens: setStoredTokens
ExchangeSucceeded ==
    \E expiring \in BOOLEAN :
        /\ exchange = "pending"
        /\ exchange' = "idle"
        /\ storedTokens' = TokenData(expiring)
        /\ disconnected' = FALSE
        /\ refreshRejected' = FALSE
        /\ UNCHANGED calls
        /\ UNCHANGED callVars

ClientNext ==
    \/ \E p \in Callers : StartFetch(p)
    \/ \E p \in Callers : RefreshSend(p)
    \/ \E p \in Callers : RefreshRejected(p)
    \/ \E p \in Callers : RefreshSucceeded(p)
    \/ \E p \in Callers : ApiAnswer(p)
    \/ TokenAges
    \/ Disconnect
    \/ ExchangeSend
    \/ ExchangeRejected
    \/ ExchangeSucceeded

ClientSpec == Init /\ [][ClientNext]_vars

(***************************************************************************)
(* Properties                                                              *)
(***************************************************************************)
Parsed == op = "parseApiResponse" /\ ~thrown
Normalized == op = "normalizeErrors" /\ ~thrown

\* normalizeErrors(raw) takes raw for one error object
IsSingleErrorObject(raw) == raw.t = "object" /\ ~IsValidationMap(raw) /\ IsErrorObject(raw)

\* C1: parseApiResponse never raises for a problem of the shape of the data:
\* whatever the status and the decoded body, it returns an ApiResult.
C1_NeverThrows == op = "parseApiResponse" => ~thrown

\* C2: whatever the body and the schema, a status of 400 or more makes
\* parseApiResponse return kind = 'failure'.
C2_StatusAbove400IsFailure ==
    (op = "parseApiResponse" /\ args.httpStatus >= 400)
        => (~thrown /\ result.kind = "failure")

\* C3: a result of kind 'success' has no errors and, when the body carried a
\* data field, data that is not null.
C3_SuccessHasData ==
    (Parsed /\ result.kind = "success")
        => /\ Len(result.errors) = 0
           /\ Has(args.body, "data") => ~IsNullish(result.data)

\* C4: no result has kind 'failure' together with data that is not null.
C4_FailureHasNoData ==
    (Parsed /\ result.kind = "failure") => IsNullish(result.data)

\* C4 as amended: for a status below 400, no result has kind 'failure' together
\* with data that is not null.
C4_FailureBelow400HasNoData ==
    (Parsed /\ args.httpStatus < 400 /\ result.kind = "failure")
        => IsNullish(result.data)

C4_Witness ==
    /\ Parsed /\ args.httpStatus < 400 /\ result.kind = "failure"
    /\ Get(args.body, "data").t = "string"
    /\ IsArray(Get(args.body, "errors"))
    /\ Len(result.errors) = 3
    /\ IsNullish(result.data)

\* the body is of shape 'standard', its data is neither null nor a string, and
\* it has no errors field or errors = null
C5_Case ==
    /\ op = "parseApiResponse"
    /\ detectShape(args.body) = "standard"
    /\ Has(args.body, "data")
    /\ ~IsNullish(Get(args.body, "data")) /\ Get(args.body, "data").t # "string"
    /\ IsNullish(Get(args.body, "errors"))

\* C5: a 'standard' body with data that is neither null nor a string, and with
\* no errors field or errors = null, gives kind = 'success' and no errors.
C5_StandardDataIsSuccess ==
    C5_Case => (~thrown /\ result.kind = "success" /\ Len(result.errors) = 0)

\* C5 as amended: the same when also the status is below 400, the body has no
\* error field or error = null, and no schema is given or the schema accepts
\* the data.
C5_StandardDataIsSuccessBelow400 ==
    (/\ C5_Case
     /\ args.httpStatus < 400
     /\ IsNullish(Get(args.body, "error"))
     /\ args.schema.s = "none" \/ validate(args.schema, Get(args.body, "data")).ok)
        => (~thrown /\ result.kind = "success" /\ Len(result.errors) = 0)

C5_Witness ==
    /\ C5_Case /\ args.httpStatus = 399
    /\ Has(args.body, "errors")
    /\ args.schema.s = "object" /\ validate(args.schema, Get(args.body, "data")).ok
    /\ ~thrown /\ result.kind = "success"

\* the value carries at least one error entry in a recognized representation:
\* a text, a non-empty array, a validation map with a message, an error object
CarriesError(x) ==
    \/ x.t = "string" /\ ~IsBlank(x.v)
    \/ IsArray(x) /\ Len(x.v) > 0
    \/ x.t = "object" /\ IsValidationMap(x)
        /\ \E i \in 1..Len(Values(x)) : Len(Values(x)[i].v) > 0
    \/ x.t = "object" /\ IsErrorObject(x)

\* the body has a data field that holds an object or an array
C6_HasData ==
    /\ op = "parseApiResponse"
    /\ Has(args.body, "data")
    /\ Get(args.body, "data").t \in {"object", "array"}

C7_ThreeCases ==
    (op = "classifyResult" /\ args.httpStatus < 400)
        => /\ result = "failure" <=> (IsNullish(args.data) /\ Len(args.errors) > 0)
           /\ result = "partial" <=> (~IsNullish(args.data) /\ Len(args.errors) > 0)
           /\ result = "success" <=> (~IsNullish(args.data) /\ Len(args.errors) = 0)

\* the errors that the call returned
ReturnedErrors ==
    CASE Parsed -> result.errors
      [] Normalized -> result
      [] op = "validate" /\ ~result.ok -> result.errors
      [] OTHER -> <<>>

\* the raw code is one of the table, letter case apart
InCodeTable(raw) == \E c \in KnownCodes : toLowerCase(c) = toLowerCase(raw)

\* C8: every error that normalizeErrors, a schema or parseApiResponse returns
\* has one of the thirteen codes and one of the three severities, and a raw
\* code that is not in the table, letter case apart, becomes UNKNOWN.
C8_ClosedVocabulary ==
    /\ \A i \in 1..Len(ReturnedErrors) :
        /\ ReturnedErrors[i].code \in
            {"NO_ACCESS", "VALIDATION", "UNAUTHENTICATED", "FORBIDDEN", "NOT_FOUND",
             "CONFLICT", "RATE_LIMIT", "UNAVAILABLE", "DEPRECATED_FIELD",
             "MAINTENANCE", "INTERNAL", "INVALID_RESPONSE", "UNKNOWN"}
        /\ ReturnedErrors[i].severity \in {"info", "warning", "error"}
    /\ (/\ Normalized /\ IsSingleErrorObject(args.raw)
        /\ Get(args.raw, "code").t = "string"
        /\ ~InCodeTable(Get(args.raw, "code").v))
            => result[1].code = "UNKNOWN"

C8_Witness ==
    /\ Normalized /\ IsSingleErrorObject(args.raw)
    /\ Get(args.raw, "code") = JStr("E_CUSTOM")
    /\ Get(args.raw, "severity") = JStr("fatal")
    /\ result[1].code = "UNKNOWN" /\ result[1].severity = "error"

\* C9: every error that normalizeErrors returns has a message, a text that is
\* not empty.
C9_MessageNeverEmpty ==
    Normalized
        => \A i \in 1..Len(result) :
            result[i].message.t = "string" /\ result[i].message.v # ""

\* C10: for an error object, retryable is the boolean that the source gives
\* when it gives one, true or false, and isRetryable(code) otherwise.
C10_ExplicitRetryableWins ==
    (Normalized /\ IsSingleErrorObject(args.raw))
        => result[1].retryable =
            IF Get(args.raw, "retryable").t = "boolean"
            THEN Get(args.raw, "retryable").v
            ELSE result[1].code \in {"RATE_LIMIT", "UNAVAILABLE"}

\* the call was made with a schema and the candidate data, which is not null,
\* fails the schema
C11_Case ==
    /\ Parsed
    /\ args.schema.s # "none"
    /\ detectShape(args.body) \in {"standard", "string-errors"}
    /\ Has(args.body, "data")
    /\ ~IsNullish(Get(args.body, "data")) /\ Get(args.body, "data").t # "string"
    /\ ~validate(args.schema, Get(args.body, "data")).ok

\* the errors that normalization takes from the fields errors and error
C11_BodyErrors ==
    (IF IsNullish(Get(args.body, "errors")) THEN <<>>
     ELSE normalizeErrors(Get(args.body, "errors")))
    \o (IF IsNullish(Get(args.body, "error")) THEN <<>>
        ELSE normalizeErrors(Get(args.body, "error")))

\* C11: when the candidate data fails the schema, the data of the result is
\* the candidate data unchanged and the errors are the normalization errors of
\* the body followed by the errors of the schema, in its order, each with path
\* 'data.' + its path, or with no path when its path is empty.
C11_SchemaFailureKeepsData ==
    C11_Case =>
        LET reported == validate(args.schema, Get(args.body, "data")).errors
            n == Len(C11_BodyErrors)
        IN  /\ result.data = Get(args.body, "data")
            /\ Len(result.errors) = n + Len(reported)
            /\ SubSeq(result.errors, 1, n) = C11_BodyErrors
            /\ \A i \in 1..Len(reported) :
                /\ result.errors[n + i].path =
                        IF reported[i].path.v = "" THEN JUndef
                        ELSE JStr("data." \o reported[i].path.v)
                /\ [result.errors[n + i] EXCEPT !.path = JUndef]
                        = [reported[i] EXCEPT !.path = JUndef]

C11_Witness ==
    /\ C11_Case
    /\ Len(C11_BodyErrors) = 1
    /\ Len(result.errors) = 3
    /\ result.errors[2].path = JStr("data.[0].id")
    /\ result.data = Get(args.body, "data")

\* the call validates data whose items[2].price is not a number with
\* s.object({items: s.array(s.object({price: s.number()}))})
C12_Case ==
    /\ Parsed
    /\ args.schema.s = "object" /\ args.schema.shape[1].k = "items"
    /\ Get(args.body, "data").t = "object"
    /\ IsArray(Get(Get(args.body, "data"), "items"))
    /\ Len(Get(Get(args.body, "data"), "items").v) = 3
    /\ Get(Get(Get(args.body, "data"), "items").v[3], "price").t # "number"

\* C12: the paths that nested schemas report join object keys with '.' and
\* write an array index as '[i]' with no separator before it: invalid
\* items[2].price is reported at 'data.items[2].price', and an array schema
\* applied to the data itself reports paths that start with 'data[i]'.
C12_PathComposition ==
    /\ C12_Case =>
            \E i \in 1..Len(result.errors) :
                result.errors[i].path.t = "string"
                /\ result.errors[i].path.v = "data.items[2].price"
    /\ (Parsed /\ args.schema.s = "array" /\ IsArray(Get(args.body, "data")))
            => \A i \in 1..Len(result.errors) :
                    (result.errors[i].code = "INVALID_RESPONSE"
                     /\ result.errors[i].path.t = "string")
                        => StartsWith(result.errors[i].path.v, "data[")

\* schema.validate(data) was called on an array with a schema s.array(item)
C13_Case == op = "validate" /\ args.schema.s = "array" /\ IsArray(args.data)

\* the errors of the elements that the item schema rejects, each with the
\* index of its element, in index order
C13_Reported ==
    Flatten([i \in 1..Len(args.data.v) |->
        LET r == validate(args.schema.inner, args.data.v[i])
        IN  IF r.ok THEN <<>>
            ELSE [e \in 1..Len(r.errors) |-> [index |-> i - 1, error |-> r.errors[e]]]])

\* C13: s.array(item) validates every element of an array: when an element
\* is invalid it fails with the errors of every invalid element, in index
\* order, each with its path prefixed by '[index]' of its element.
C13_ArrayNeverShortCircuits ==
    C13_Case =>
        /\ result.ok <=> Len(C13_Reported) = 0
        /\ ~result.ok =>
            /\ Len(result.errors) = Len(C13_Reported)
            /\ \A k \in 1..Len(C13_Reported) :
                /\ StartsWith(result.errors[k].path.v,
                              "[" \o IntToString(C13_Reported[k].index) \o "]")
                /\ [result.errors[k] EXCEPT !.path = JUndef]
                        = [C13_Reported[k].error EXCEPT !.path = JUndef]

C13_Witness ==
    /\ C13_Case /\ ~result.ok
    /\ Len(args.data.v) = 3
    /\ Len(result.errors) = 2
    /\ result.errors[1].path = JStr("[0].id")
    /\ result.errors[2].path = JStr("[2].price")

\* the errors field of the body is a validation map
C14_Case ==
    /\ op = "parseApiResponse"
    /\ Has(args.body, "errors")
    /\ Get(args.body, "errors").t = "object"
    /\ IsValidationMap(Get(args.body, "errors"))

\* the (field, message) pairs of the map, by field and then by message
C14_Pairs ==
    LET map == Entries(Get(args.body, "errors"))
    IN  Flatten([f \in 1..Len(map) |->
            [m \in 1..Len(map[f].v.v) |-> [field |-> map[f].k, message |-> map[f].v.v[m]]]])

\* the errors of the result are one VALIDATION error for each pair, in order
C14_OnePerPair ==
    /\ ~thrown
    /\ Len(result.errors) = Len(C14_Pairs)
    /\ \A i \in 1..Len(C14_Pairs) :
        /\ result.errors[i].code = "VALIDATION"
        /\ result.errors[i].severity = "error"
        /\ result.errors[i].retryable = FALSE
        /\ result.errors[i].message = C14_Pairs[i].message
        /\ result.errors[i].path =
                IF StartsWith(C14_Pairs[i].field, "input.") THEN JStr(C14_Pairs[i].field)
                ELSE JStr("input." \o C14_Pairs[i].field)

\* C14: a body whose errors field is a validation map yields exactly one
\* error for each (field, message) pair, by field and then by message, with
\* code VALIDATION, severity error, retryable false, the message of the source
\* and path 'input.<field>', or the field itself when it starts with 'input.'.
C14_ValidationMapErrors == C14_Case => C14_OnePerPair

\* C14 as amended: the same for a body whose error field is not a non-null
\* object.
C14_ValidationMapErrorsNoErrorObject ==
    (/\ C14_Case
     /\ ~(TypeOf(Get(args.body, "error")) = "object" /\ Get(args.body, "error").t # "null"))
        => C14_OnePerPair

C14_Witness ==
    /\ C14_Case /\ ~thrown
    /\ Get(args.body, "error") = JStr("Unauthorized")
    /\ Has(args.body, "data")
    /\ Len(result.errors) = 3
    /\ result.errors[2].path = JStr("input.phone")
    /\ result.errors[3].path = JStr("input.surname")

\* the body is an object whose error field holds an object, not null
C15_Case ==
    /\ op = "parseApiResponse"
    /\ args.body.t \in {"object", "array"}
    /\ Has(args.body, "error")
    /\ Get(args.body, "error").t \in {"object", "array"}

\* C15: for an object body whose error field is a non-null object, whatever
\* errors and data hold, detectShape returns 'single-error' and
\* parseApiResponse returns the errors of the error field alone and no data.
C15_SingleErrorWins ==
    C15_Case =>
        /\ detectShape(args.body) = "single-error"
        /\ ~thrown
        /\ result.errors = normalizeErrors(Get(args.body, "error"))
        /\ IsNullish(result.data)

\* the body is an object whose error field holds no object and whose errors
\* field holds an object, not an array, whose every value is an array of
\* strings
C16_Case ==
    /\ op = "parseApiResponse"
    /\ args.body.t = "object"
    /\ Get(args.body, "error").t \notin {"object", "array"}
    /\ Has(args.body, "errors")
    /\ Get(args.body, "errors").t = "object"
    /\ \A i \in 1..Len(Values(Get(args.body, "errors"))) :
        LET v == Values(Get(args.body, "errors"))[i]
        IN  IsArray(v) /\ \A j \in 1..Len(v.v) : v.v[j].t = "string"

\* C16: for an object body without an object-valued error field, when the
\* errors field is a non-array object whose every value is an array of
\* strings, detectShape returns 'validation-map', with or without data.
C16_ValidationMapDetected == C16_Case => detectShape(args.body) = "validation-map"

\* C16 as amended: the same when the errors object has at least one key.
C16_NonEmptyValidationMapDetected ==
    (C16_Case /\ Len(Values(Get(args.body, "errors"))) > 0)
        => detectShape(args.body) = "validation-map"

C16_Witness ==
    /\ C16_Case
    /\ Len(Values(Get(args.body, "errors"))) = 2
    /\ Has(args.body, "data") /\ Get(args.body, "data").t = "object"
    /\ Get(args.body, "error").t = "string"
    /\ detectShape(args.body) = "validation-map"
    /\ ~thrown /\ Len(result.errors) = 3

\* the body is an object whose error field holds no object and whose errors
\* field holds an array
C17_Case ==
    /\ op = "parseApiResponse"
    /\ args.body.t = "object"
    /\ Get(args.body, "error").t \notin {"object", "array"}
    /\ Has(args.body, "errors")
    /\ IsArray(Get(args.body, "errors"))

\* C17: for an object body without an object-valued error field whose errors
\* field is an array, detectShape returns 'standard' for an empty array next
\* to a data field and 'unknown' for one without, and otherwise goes by the
\* first element: 'string-errors' for a string, 'standard' for an object,
\* 'unknown' for a number, a boolean or null.
C17_ErrorsArrayShape ==
    C17_Case =>
        LET errors == Get(args.body, "errors").v
        IN  detectShape(args.body) =
                IF Len(errors) = 0
                THEN (IF Has(args.body, "data") THEN "standard" ELSE "unknown")
                ELSE IF errors[1].t = "string" THEN "string-errors"
                ELSE IF errors[1].t \in {"object", "array"} THEN "standard"
                ELSE "unknown"

\* normalizeErrors was called on an array of strings
C18_Case ==
    /\ op = "normalizeErrors"
    /\ IsArray(args.raw)
    /\ \A i \in 1..Len(args.raw.v) : args.raw.v[i].t = "string"

\* C18: normalizeErrors maps an array of strings element by element, in
\* order, each string by the rule of a lone string: normalizeErrors([s]) is
\* normalizeErrors(s), and a blank element contributes no error.
C18_ArrayOfStringsByElement ==
    C18_Case =>
        /\ ~thrown
        /\ result = Flatten([i \in 1..Len(args.raw.v) |-> normalizeErrors(args.raw.v[i])])

\* the keys of an object
C19_Keys(obj) == {obj.v[i].k : i \in 1..Len(obj.v)}

\* the keys of the source outside the six fields of an error
C19_ExtraKeys ==
    C19_Keys(args.raw) \ {"code", "message", "msg", "path", "severity", "retryable"}

\* the source holds an explicit nested meta object
C19_HasExplicit == Get(args.raw, "meta").t = "object"

\* C19: the meta of a normalized error object holds every key of the source
\* outside code, message, msg, path, severity and retryable with its value,
\* and every entry of an explicit meta object, the explicit entry winning for
\* a key that both define; meta is absent, not an empty mapping, when the
\* source has no such key and no explicit meta object.
C19_MetaCollectsExtras ==
    (Normalized /\ IsSingleErrorObject(args.raw)) =>
        LET explicit == Get(args.raw, "meta")
            meta == result[1].meta
            keys == C19_ExtraKeys
                    \cup (IF C19_HasExplicit THEN C19_Keys(explicit) ELSE {})
        IN  IF keys = {} THEN meta.t = "undefined"
            ELSE /\ meta.t = "object"
                 /\ C19_Keys(meta) = keys
                 /\ Len(meta.v) = Cardinality(keys)
                 /\ \A k \in keys :
                        LET expected == IF C19_HasExplicit /\ Has(explicit, k)
                                        THEN Get(explicit, k)
                                        ELSE Get(args.raw, k)
                        IN  Get(meta, k).t = expected.t /\ Get(meta, k) = expected

C19_Witness ==
    /\ Normalized /\ IsSingleErrorObject(args.raw)
    /\ C19_HasExplicit
    /\ Get(args.raw, "expected") = JNum(2)
    /\ Get(Get(args.raw, "meta"), "expected") = JNum(3)
    /\ Get(result[1].meta, "expected") = JNum(3)
    /\ result[1].path = JStr("data.phone")
    /\ ~Has(result[1].meta, "path")

\* validate was called on a schema s.union(s1..sn)
C20_Case == op = "validate" /\ args.schema.s = "union"

\* what the variants answer, in argument order
C20_Variants ==
    [i \in 1..Len(args.schema.schemas) |-> validate(args.schema.schemas[i], args.data)]

\* C20: s.union(s1..sn).validate(v) returns the result of the first schema,
\* in argument order, that accepts v; when none accepts, also for n = 0, it
\* fails with exactly one INVALID_RESPONSE error with an empty path, and no
\* error of a variant is in the output.
C20_UnionFirstMatch ==
    C20_Case =>
        /\ \A i \in 1..Len(C20_Variants) :
                (C20_Variants[i].ok /\ \A j \in 1..(i - 1) : ~C20_Variants[j].ok)
                    => (result.ok /\ result.value = C20_Variants[i].value)
        /\ (\A i \in 1..Len(C20_Variants) : ~C20_Variants[i].ok)
                => /\ ~result.ok
                   /\ Len(result.errors) = 1
                   /\ result.errors[1].code = "INVALID_RESPONSE"
                   /\ result.errors[1].path = JStr("")
                   /\ \A i \in 1..Len(C20_Variants) :
                        \A e \in 1..Len(C20_Variants[i].errors) :
                            result.errors[1].message # C20_Variants[i].errors[e].message

C20_Witness ==
    /\ C20_Case
    /\ args.data.t = "undefined"
    /\ Len(C20_Variants) = 3
    /\ ~C20_Variants[1].ok
    /\ C20_Variants[2].ok /\ C20_Variants[2].value.t = "null"
    /\ C20_Variants[3].ok /\ C20_Variants[3].value.t = "undefined"
    /\ result.ok /\ result.value.t = "null"

\* schema.validate(data) was called with a schema s.object(shape)
C21_Case == op = "validate" /\ args.schema.s = "object"

\* the errors of the declared keys that their schema rejects, each with its
\* key, in shape order
C21_Reported ==
    Flatten([i \in 1..Len(args.schema.shape) |->
        LET r == validate(args.schema.shape[i].v, Get(args.data, args.schema.shape[i].k))
        IN  IF r.ok THEN <<>>
            ELSE [e \in 1..Len(r.errors) |->
                    [key |-> args.schema.shape[i].k, error |-> r.errors[e]]]])

\* C21: s.object(shape) fails with exactly one error for an input that is
\* null, an array or no object; on an object it reports nothing for a key that
\* the shape does not declare, and when declared keys fail it returns the
\* errors of every failing declared key, in shape order, each with its path
\* prefixed by its key.
C21_ObjectNeverShortCircuits ==
    C21_Case =>
        IF args.data.t # "object"
        THEN ~result.ok /\ Len(result.errors) = 1
        ELSE /\ result.ok <=> Len(C21_Reported) = 0
             /\ ~result.ok =>
                /\ Len(result.errors) = Len(C21_Reported)
                /\ \A k \in 1..Len(C21_Reported) :
                    /\ \/ result.errors[k].path.v = C21_Reported[k].key
                       \/ StartsWith(result.errors[k].path.v, C21_Reported[k].key \o ".")
                    /\ [result.errors[k] EXCEPT !.path = JUndef]
                            = [C21_Reported[k].error EXCEPT !.path = JUndef]

C21_Witness ==
    /\ C21_Case /\ args.data.t = "object" /\ ~result.ok
    /\ Has(args.data, "age")
    /\ Len(result.errors) = 2
    /\ result.errors[1].path = JStr("name")
    /\ result.errors[2].path = JStr("phone")

\* the call was made with a schema s.object(shape) that accepts the candidate
\* data
C22_Case ==
    /\ Parsed
    /\ args.schema.s = "object"
    /\ detectShape(args.body) \in {"standard", "string-errors"}
    /\ Get(args.body, "data").t = "object"
    /\ validate(args.schema, Get(args.body, "data")).ok

\* C22: when an s.object schema accepts the candidate data, the keys of the
\* data that the shape does not declare are passed through: the data of the
\* result holds them with their values.
C22_UndeclaredKeysPassThrough ==
    C22_Case =>
        \A i \in 1..Len(Get(args.body, "data").v) :
            LET e == Get(args.body, "data").v[i]
            IN  (\A j \in 1..Len(args.schema.shape) : args.schema.shape[j].k # e.k)
                    => /\ Has(result.data, e.k)
                       /\ Get(result.data, e.k) = e.v

\* the state that the priority NO_ACCESS, FORBIDDEN, severity error, severity
\* warning gives a path over the errors with exactly that path
C23_State(errors, path) ==
    LET at == {i \in 1..Len(errors) : errors[i].path = JStr(path)}
    IN  IF at = {} THEN "ok"
        ELSE IF \E i \in at : errors[i].code = "NO_ACCESS" THEN "locked"
        ELSE IF \E i \in at : errors[i].code = "FORBIDDEN" THEN "denied"
        ELSE IF \E i \in at : errors[i].severity = "error" THEN "error"
        ELSE IF \E i \in at : errors[i].severity = "warning" THEN "warning"
        ELSE "error"

\* the paths of the errors that are not empty
C23_Paths ==
    {args.errors[i].path.v :
        i \in {j \in 1..Len(args.errors) :
                    args.errors[j].path.t = "string" /\ args.errors[j].path.v # ""}}

C24_Case ==
    /\ op = "parseApiResponse"
    /\ args.body.t = "object"
    /\ Get(args.body, "error").t = "string" /\ ~IsBlank(Get(args.body, "error").v)
    /\ ~Has(args.body, "data") /\ ~Has(args.body, "errors")

\* C24: a body {error: text} of the 'single string' format yields an error
\* whose message is the text and whose code is inferred from the text.
C24_SingleStringError ==
    C24_Case =>
        /\ ~thrown
        /\ \E i \in 1..Len(result.errors) :
            /\ result.errors[i].message = Get(args.body, "error")
            /\ result.errors[i].code = inferCodeFromString(Get(args.body, "error").v)

\* the body is an object whose data field holds a string
C25_Case ==
    /\ op = "parseApiResponse"
    /\ args.body.t = "object"
    /\ Get(args.body, "data").t = "string"

\* the result has no data and an INVALID_RESPONSE error for the data field
C25_Reported ==
    /\ ~thrown
    /\ IsNullish(result.data)
    /\ \E i \in 1..Len(result.errors) :
        /\ result.errors[i].code = "INVALID_RESPONSE"
        /\ Contains(result.errors[i].message.v, "\"data\"")

C29_Case == Parsed /\ detectShape(args.body) = "single-error"
C29_SingleErrorFails ==
    C29_Case =>
        /\ Len(result.errors) >= 1
        /\ (args.httpStatus < 400 => result.kind = "failure")

\* C30: every (status, body) that fetchAllegroPermissions builds for an
\* authentication failure is parsed into kind 'failure' with an error of code
\* UNAUTHENTICATED, so requiresAuth(result) is true.
C30_Case ==
    /\ Parsed
    /\ \E failure \in AuthFailures :
          /\ args.httpStatus = authFailureResponse(failure).status
          /\ args.body = authFailureResponse(failure).body
C30_AuthFailureRequiresAuth ==
    C30_Case => result.kind = "failure" /\ requiresAuth(result)

\* C26: allegroFetch retries a 401 at most once: it refreshes once, issues the
\* request once more and returns, so one call issues at most two requests
\* even when every request is answered 401 and every refresh succeeds.
C26_AtMostOneRetry == \A p \in Callers : calls[p].requests <= 2

\* C27: after the token endpoint rejected a refresh the tokens are cleared
\* and isConnected() is false until exchangeOAuthCode stores new tokens.
C27_RejectedRefreshDisconnects == refreshRejected => ~isConnected

\* C28: once disconnectAllegro has completed, isConnected() is false until
\* exchangeOAuthCode succeeds, whatever call was suspended at an await while
\* the disconnect ran.
C28_DisconnectIsFinal == disconnected => ~isConnected

====
